---- MODULE Spec2Model ----
(***************************************************************************)
(* Windsurf-Updater: a model of src/windsurf_updater.py.                   *)
(*                                                                         *)
(* UpdaterThread.run (the direct update path) is modelled step by step on  *)
(* an abstract file system: the install directories, the backup            *)
(* directories in the home directory and the scratch directories made by   *)
(* tempfile.mkdtemp.  WindsurfUpdaterWindow is modelled by its handlers    *)
(* (dropEvent, browse_tarball, browse_install_path, start_update,          *)
(* run_with_sudo, update_finished) and the state they read and write.      *)
(*                                                                         *)
(* The specifications:                                                     *)
(*   Spec      RunUpdate called in succession on one archive and one       *)
(*             target (FairSpec: a started worker keeps running)           *)
(*   AppSpec   one application instance under any interleaving of user     *)
(*             events with running workers and privileged children         *)
(*   SudoSpec  the privileged path alone: the generated script, command by *)
(*             command, and its monitor (FairSudoSpec: they keep running)  *)
(*   FindSpec  find_windsurf_installation on every arrangement of its      *)
(*             candidate directories                                       *)
(***************************************************************************)
EXTENDS Integers, Sequences, FiniteSets, TLC

\* ---------------------------------------------------------------- bounds
MaxRuns == 2        \* UpdaterThread objects constructed in one behaviour
MaxMembers == 2     \* members of an archive
MaxTime == 1        \* largest value int(time.time()) takes
MaxFaults == 1      \* file-system operations that fail in one behaviour of Spec
MaxAppFaults == 0   \* file-system operations that fail in one behaviour of AppSpec
MaxSudo == 2        \* privileged children launched in one behaviour of SudoSpec
MaxAppSudo == 1     \* privileged children launched in one behaviour of AppSpec

JobIds == 1..MaxRuns
SudoIds == 1..MaxSudo
AppSudoIds == 1..MaxAppSudo
Stamps == 0..MaxTime
ScratchNames == 1..MaxRuns

\* ------------------------------------------------------- archive members
\* A member name is a string, kept as the sequence of its characters; the
\* one-letter path segments stand for: p payload, q a second top-level
\* directory, a app, b lib, n new.txt, e etc.  Name_up is "../e", Name_abs
\* is "/e", and Name_dots is "n..n": two dots inside a file name.
Name_p == <<"p">>
Name_pa == <<"p", "/", "a">>
Name_pb == <<"p", "/", "b">>
Name_qb == <<"q", "/", "b">>
Name_n == <<"n">>
Name_up == <<".", ".", "/", "e">>
Name_abs == <<"/", "e">>
Name_dots == <<"n", ".", ".", "n">>

TarMember(n, d) == [name |-> n, isdir |-> d]

Members ==
    { TarMember(Name_p, TRUE), TarMember(Name_pa, FALSE),
      TarMember(Name_pb, FALSE),
      TarMember(Name_qb, FALSE), TarMember(Name_n, FALSE),
      TarMember(Name_up, FALSE), TarMember(Name_abs, FALSE),
      TarMember(Name_dots, FALSE) }

\* str.startswith('/')
StartsWithSlash(s) == Len(s) > 0 /\ s[1] = "/"

\* '..' in s  (a substring test)
ContainsDotDot(s) == \E i \in 1..(Len(s) - 1) : s[i] = "." /\ s[i + 1] = "."

\* s.split('/')
RECURSIVE SplitFrom(_, _, _)
SplitFrom(s, i, cur) ==
    IF i > Len(s) THEN <<cur>>
    ELSE IF s[i] = "/" THEN <<cur>> \o SplitFrom(s, i + 1, <<>>)
    ELSE SplitFrom(s, i + 1, Append(cur, s[i]))

Segments(s) == SplitFrom(s, 1, <<>>)

\* the path segments tar.extract writes under: empty segments ("a//b", a
\* trailing slash) name nothing
PathParts(s) == SelectSeq(Segments(s), LAMBDA seg : seg # <<>>)

\* An archive file: whether tarfile.open(path, "r:gz") succeeds, and its
\* members in stored order.
SeqsUpTo(S, n) == UNION { [1..k -> S] : k \in 0..n }

Archives ==
    { [openable |-> TRUE, members |-> ms] : ms \in SeqsUpTo(Members, MaxMembers) }
    \cup { [openable |-> FALSE, members |-> <<>>] }

\* the check with its second test left out
UnsafeMember_NoDotDot(m) == StartsWithSlash(m.name)

\* the check of lines 58-60, over all members
UnsafeMember(m) == StartsWithSlash(m.name) \/ ContainsDotDot(m.name)

UnsafeArchive(a) == \E i \in 1..Len(a.members) : UnsafeMember(a.members[i])

\* ------------------------------------------------------------ directories
\* An entry of a directory: its name, whether it is a directory, and its
\* content ("v1" what was installed before, "v2" what the archive holds).
\* A directory is [exists, items]; a scratch directory's top-level entries
\* also carry their own children in sub.
Entry(n, k, d) == [name |-> n, kind |-> k, data |-> d]
NoDir == [exists |-> FALSE, items |-> {}]
EmptyDir == [exists |-> TRUE, items |-> {}]
DirOf(items) == [exists |-> TRUE, items |-> items]

Node(n, k, d, sub) == [name |-> n, kind |-> k, data |-> d, sub |-> sub]
NamesOf(items) == { e.name : e \in items }
Without(items, n) == { e \in items : e.name # n }

\* tar.extract(member, path=temp_dir) on the scratch tree.  A one-segment
\* name makes a top-level entry; a two-segment name makes the parent if it
\* is missing and the child in it.  (Members holds no deeper name.)
ExtractInto(tree, m) ==
    LET parts == PathParts(m.name)
        top == parts[1]
        kind == IF m.isdir THEN "dir" ELSE "file"
    IN  IF Len(parts) = 0 THEN tree
        ELSE IF Len(parts) = 1
        THEN IF \E e \in tree : e.name = top /\ e.kind = "dir" /\ m.isdir
             THEN tree
             ELSE Without(tree, top) \cup { Node(top, kind, "v2", {}) }
        ELSE LET old == IF \E e \in tree : e.name = top /\ e.kind = "dir"
                        THEN (CHOOSE e \in tree : e.name = top).sub
                        ELSE {}
                 child == Entry(parts[2], kind, "v2")
             IN  Without(tree, top)
                 \cup { Node(top, "dir", "v2", Without(old, parts[2]) \cup {child}) }

\* [d for d in temp_dir.iterdir() if d.is_dir()]
ExtractedDirs(tree) == { e \in tree : e.kind = "dir" }

\* the entries of a scratch directory seen as plain entries (item.name,
\* item.is_dir())
TopItems(tree) == { Entry(e.name, e.kind, e.data) : e \in tree }

\* ------------------------------------------------------------------ state
HomeWindsurf == "/home/user/windsurf"
OptWindsurf == "/opt/windsurf"
Paths == { HomeWindsurf, OptWindsurf }
\* os.access(path, os.W_OK) for the user running the application
WritablePaths == { HomeWindsurf }
TarballFile == "windsurf.tar.gz"

VARIABLES
    now,            \* the last value int(time.time()) returned
    tarfile,        \* the archive stored in TarballFile
    target,         \* [Paths -> directory]: the install directories
    backups,        \* [Stamps -> directory]: ~/windsurf_backup_<stamp>
    scratch,        \* [ScratchNames -> directory]: <tmp>/windsurf_update_<name>
    thr,            \* [JobIds -> UpdaterThread object and the position of its run()]
    faults,         \* file-system operations that may still fail in this behaviour
    hist,           \* [JobIds -> what the disk held when the job started and when
                    \*  its Installing step began, the members it extracted and
                    \*  the payload root's entries]: a record of the past, which
                    \*  no step reads
    tarball_path,   \* WindsurfUpdaterWindow.tarball_path ("" for None)
    windsurf_path,  \* WindsurfUpdaterWindow.windsurf_path ("" for None)
    path_edit,      \* the text of the path line edit
    update_button,  \* update_button.isEnabled()
    script,         \* ~/windsurf_update_script.sh
    child,          \* [SudoIds -> privileged child process and its monitor thread]
    dated,          \* [Stamps -> directory]: ~/windsurf_backup_<date>_<time>
    sudo_tmp,       \* [SudoIds -> directory]: the script's $TEMP_DIR
    lookup          \* a call of find_windsurf_installation: what it sees and returns

fsVars == <<target, backups, scratch>>
guiVars == <<tarball_path, windsurf_path, path_edit, update_button>>
sudoVars == <<script, child, dated, sudo_tmp>>
vars == <<now, tarfile, target, backups, scratch, thr, faults, hist,
          tarball_path, windsurf_path, path_edit, update_button,
          script, child, dated, sudo_tmp, lookup>>

\* ----------------------------------------------------------------- signals
Progress(n) == [sig |-> "progress", pct |-> n, ok |-> FALSE, msg |-> ""]
Status(m) == [sig |-> "status", pct |-> 0, ok |-> FALSE, msg |-> m]
Finished(b, m) == [sig |-> "finished", pct |-> 0, ok |-> b, msg |-> m]

\* self.<signal>.emit(...) for each of es, in order
Emit(t, es) == [t EXCEPT !.events = @ \o es]

\* ------------------------------------------------------------ UpdaterThread
\* an UpdaterThread that has not been constructed
NoThread ==
    [pc |-> "new", tarball_path |-> "", install_path |-> "", start_time |-> 0,
     temp_dir |-> 0, tar |-> <<>>, idx |-> 0, source_dir |-> <<>>, todo |-> {},
     events |-> <<>>, received |-> FALSE]

NoHist ==
    [target0 |-> NoDir, backups0 |-> [s \in Stamps |-> NoDir],
     snap |-> NoDir, extracted |-> 0, located |-> FALSE, payload |-> {}]

\* UpdaterThread.__init__ followed by start(): run() is at its first line
NewThread(tarball, install, t) ==
    [NoThread EXCEPT !.pc = "starting", !.tarball_path = tarball,
                     !.install_path = install, !.start_time = t]

\* the handler with its two emits in the other order
ExceptHandler_StatusLast(t, m) ==
    [Emit(t, <<Finished(FALSE, m), Status(m)>>) EXCEPT !.pc = "failed"]

\* a handler that reports a percentage as well
ExceptHandler_Progress90(t, m) ==
    [Emit(t, <<Progress(90), Status(m), Finished(FALSE, m)>>) EXCEPT !.pc = "failed"]

\* the handler of lines 143-145
ExceptHandler(t, m) ==
    [Emit(t, <<Status(m), Finished(FALSE, m)>>) EXCEPT !.pc = "failed"]

Terminal(t) == t.pc \in {"done", "failed"}
InFlight(t) == t.pc \notin {"new", "done", "failed"}

\* the outcomes of a file-system call: it returns, raises PermissionError,
\* or raises another exception
Outcomes == {"ok", "perm", "err"}
Cost(o) == IF o = "ok" THEN 0 ELSE 1

\* tempfile.mkdtemp makes a directory that did not exist
FreeScratch == { d \in ScratchNames : ~scratch[d].exists }

\* lines 38-52: Starting, the scratch directory, its permissions, and the
\* entry to Extracting
RunStarting(w) ==
    /\ thr[w].pc = "starting"
    /\ \E mk \in {"ok", "err"}, ch \in {"ok", "err"} :
        /\ Cost(mk) + Cost(ch) <= faults
        /\ mk = "err" => ch = "ok"
        /\ faults' = faults - (Cost(mk) + Cost(ch))
        /\ LET t0 == Emit(thr[w], <<Status("Starting update process..."), Progress(10)>>)
           IN  IF mk = "err"
               THEN /\ thr' = [thr EXCEPT ![w] = ExceptHandler(t0, "Update failed: mkdtemp")]
                    /\ UNCHANGED scratch
               ELSE \E d \in FreeScratch :
                    /\ scratch' = [scratch EXCEPT ![d] = EmptyDir]
                    /\ LET t1 == Emit(t0, <<Status("Created temporary directory")>>)
                           t2 == IF ch = "err"
                                 THEN Emit(t1, <<Status("Warning: Could not set permissions on temp directory")>>)
                                 ELSE t1
                           t3 == Emit(t2, <<Status("Extracting tarball..."), Progress(30)>>)
                       IN  thr' = [thr EXCEPT ![w] = [t3 EXCEPT !.temp_dir = d, !.pc = "opening"]]
    /\ UNCHANGED <<lookup, now, tarfile, target, backups, hist, guiVars, sudoVars>>

\* lines 56-60: tarfile.open and the check of every member's name
RunOpening(w) ==
    /\ thr[w].pc = "opening"
    /\ thr' = [thr EXCEPT ![w] =
                 IF ~tarfile.openable
                 THEN ExceptHandler(@, "Failed to extract tarball: not a gzip file")
                 ELSE IF UnsafeArchive(tarfile)
                 THEN ExceptHandler(@, "Failed to extract tarball: Potentially unsafe path in tarball")
                 ELSE [@ EXCEPT !.pc = "extracting", !.tar = tarfile.members, !.idx = 1]]
    /\ UNCHANGED <<lookup, now, tarfile, fsVars, faults, hist, guiVars, sudoVars>>

\* an except clause that lets the exception end the job
ExtractFailed_Abort(t, o) == ExceptHandler(t, "Failed to extract tarball: member")

\* lines 66-73: the except clauses of the extraction loop report the
\* failure and continue with the next member
ExtractFailed(t, o) ==
    IF o = "perm"
    THEN Emit(t, <<Status("Permission error extracting, trying to continue...")>>)
    ELSE Emit(t, <<Status("Error extracting member")>>)

\* lines 63-73: one pass of the extraction loop
RunExtracting(w) ==
    /\ thr[w].pc = "extracting"
    /\ thr[w].idx <= Len(thr[w].tar)
    /\ \E o \in Outcomes :
        /\ Cost(o) <= faults
        /\ faults' = faults - (Cost(o))
        /\ LET m == thr[w].tar[thr[w].idx]
               d == thr[w].temp_dir
           IN  /\ scratch' = IF o = "ok"
                             THEN [scratch EXCEPT ![d].items = ExtractInto(@, m)]
                             ELSE scratch
               /\ hist' = IF o = "ok"
                          THEN [hist EXCEPT ![w].extracted = @ + 1]
                          ELSE hist
               /\ thr' = [thr EXCEPT ![w] =
                            [(IF o = "ok" THEN @ ELSE ExtractFailed(@, o))
                             EXCEPT !.idx = @ + 1]]
    /\ UNCHANGED <<lookup, now, tarfile, target, backups, guiVars, sudoVars>>

\* a backup that makes the directory and copies nothing into it
CopyTree_MkdirOnly(items) == EmptyDir

\* shutil.copytree(install_path, backup_dir), line 86: the new directory
\* holds a copy of every entry
CopyTree(items) == DirOf(items)

\* an install step that copies nothing
InstallEntry_Nothing(items, item) == items

\* lines 115-124: an entry of the same name is removed from the target, then
\* the payload's entry is copied there
InstallEntry(items, item) == Without(items, item.name) \cup {item}

\* Done without its progress_signal.emit(100)
DoneSignals_No100 ==
    <<Status("Update completed successfully!"),
      Finished(TRUE, "Windsurf has been successfully updated!")>>

\* lines 139-141
DoneSignals ==
    <<Progress(100), Status("Update completed successfully!"),
      Finished(TRUE, "Windsurf has been successfully updated!")>>

\* what a failed shutil.rmtree or shutil.copytree can leave of the entries
\* it was working through: any part of them
Partial(items) == SUBSET items

\* lines 77-97: BackingUp (the backup copy, or the creation of a missing
\* install directory) and the entry to Installing
RunBackingUp(w) ==
    /\ thr[w].pc = "extracting"
    /\ thr[w].idx > Len(thr[w].tar)
    /\ LET p == thr[w].install_path
           b == thr[w].start_time
           t0 == Emit(thr[w], <<Status("Backing up current installation..."), Progress(50)>>)
           go(t) == [Emit(t, <<Status("Updating Windsurf..."), Progress(70)>>)
                        EXCEPT !.pc = "locating"]
       IN  IF target[p].exists
           THEN \E rm \in {"ok", "err"}, cp \in {"ok", "err"} :
                /\ Cost(rm) + Cost(cp) <= faults
                /\ rm = "err" => (backups[b].exists /\ cp = "ok")
                /\ faults' = faults - (Cost(rm) + Cost(cp))
                /\ UNCHANGED target
                /\ IF rm = "err"
                   THEN /\ \E left \in Partial(backups[b].items) :
                             backups' = [backups EXCEPT ![b] = DirOf(left)]
                        /\ thr' = [thr EXCEPT ![w] = ExceptHandler(t0, "Update failed: rmtree of the old backup")]
                        /\ UNCHANGED hist
                   ELSE IF cp = "err"
                   THEN /\ \E done \in Partial(target[p].items) :
                             backups' = [backups EXCEPT ![b] = DirOf(done)]
                        /\ thr' = [thr EXCEPT ![w] = ExceptHandler(t0, "Update failed: copytree to the backup")]
                        /\ UNCHANGED hist
                   ELSE /\ backups' = [backups EXCEPT ![b] = CopyTree(target[p].items)]
                        /\ thr' = [thr EXCEPT ![w] = go(Emit(t0, <<Status("Backup created")>>))]
                        /\ hist' = [hist EXCEPT ![w].snap = target[p]]
           ELSE \E mk \in Outcomes :
                /\ Cost(mk) <= faults
                /\ faults' = faults - (Cost(mk))
                /\ UNCHANGED backups
                /\ IF mk = "ok"
                   THEN /\ target' = [target EXCEPT ![p] = EmptyDir]
                        /\ thr' = [thr EXCEPT ![w] = go(Emit(t0, <<Status("Created new installation directory")>>))]
                        /\ hist' = [hist EXCEPT ![w].snap = EmptyDir]
                   ELSE /\ UNCHANGED <<target, hist>>
                        /\ thr' = [thr EXCEPT ![w] =
                                     ExceptHandler(t0, IF mk = "perm"
                                         THEN "Update failed: Permission denied when creating installation directory. Try running with sudo."
                                         ELSE "Update failed: mkdir")]
    /\ UNCHANGED <<lookup, now, tarfile, scratch, guiVars, sudoVars>>

\* the entries of the payload root: of the scratch directory itself when
\* src is <<>>, of its subdirectory src[1] otherwise
SourceItems(tree, src) ==
    IF src = <<>> THEN TopItems(tree)
    ELSE UNION { e.sub : e \in { x \in tree : x.name = src[1] /\ x.kind = "dir" } }

\* lines 99-109: the payload root.  extracted_dirs[0] is the first
\* directory iterdir() yields, and iterdir() yields in any order.
RunLocating(w) ==
    /\ thr[w].pc = "locating"
    /\ LET tree == scratch[thr[w].temp_dir].items
           dirs == ExtractedDirs(tree)
       IN  IF dirs = {}
           THEN IF tree = {}
                THEN /\ thr' = [thr EXCEPT ![w] =
                                 ExceptHandler(@, "Update failed: No files found in the extracted tarball")]
                     /\ UNCHANGED hist
                ELSE /\ thr' = [thr EXCEPT ![w] =
                                 [@ EXCEPT !.pc = "installing", !.source_dir = <<>>,
                                           !.todo = NamesOf(TopItems(tree))]]
                     /\ hist' = [hist EXCEPT ![w].located = TRUE,
                                             ![w].payload = TopItems(tree)]
           ELSE \E d \in dirs :
                /\ thr' = [thr EXCEPT ![w] =
                            [@ EXCEPT !.pc = "installing", !.source_dir = <<d.name>>,
                                      !.todo = NamesOf(d.sub)]]
                /\ hist' = [hist EXCEPT ![w].located = TRUE, ![w].payload = d.sub]
    /\ UNCHANGED <<lookup, now, tarfile, fsVars, faults, guiVars, sudoVars>>

\* lines 112-128: one pass of the install loop, over the entry iterdir()
\* yields next
RunInstalling(w) ==
    /\ thr[w].pc = "installing"
    /\ \E n \in thr[w].todo, rm \in Outcomes, cp \in Outcomes :
        LET p == thr[w].install_path
            item == CHOOSE e \in SourceItems(scratch[thr[w].temp_dir].items, thr[w].source_dir) :
                        e.name = n
            there == n \in NamesOf(target[p].items)
        IN  /\ Cost(rm) + Cost(cp) <= faults
            /\ rm # "ok" => (there /\ cp = "ok")
            /\ faults' = faults - (Cost(rm) + Cost(cp))
            /\ IF rm # "ok"
               THEN /\ UNCHANGED target
                    /\ thr' = [thr EXCEPT ![w] =
                                 ExceptHandler(@, IF rm = "perm"
                                     THEN "Update failed: Permission denied when copying. Try running with sudo."
                                     ELSE "Update failed: Error copying")]
               ELSE IF cp # "ok"
               THEN /\ \E got \in { {}, { Entry(n, item.kind, "partial") } } :
                         target' = [target EXCEPT ![p].items = Without(@, n) \cup got]
                    /\ thr' = [thr EXCEPT ![w] =
                                 ExceptHandler(@, IF cp = "perm"
                                     THEN "Update failed: Permission denied when copying. Try running with sudo."
                                     ELSE "Update failed: Error copying")]
               ELSE /\ target' = [target EXCEPT ![p].items = InstallEntry(@, item)]
                    /\ thr' = [thr EXCEPT ![w].todo = @ \ {n}]
    /\ UNCHANGED <<lookup, now, tarfile, backups, scratch, hist, guiVars, sudoVars>>

\* a failed removal that ends the job as failed
AfterRmtree_Fail(t, rm) ==
    IF rm = "ok" THEN [Emit(t, DoneSignals) EXCEPT !.pc = "done"]
    ELSE ExceptHandler(t, "Update failed: rmtree of the temporary directory")

\* lines 134-141: a failed shutil.rmtree(temp_dir) is reported as a warning,
\* and Done follows in either case
AfterRmtree(t, rm) ==
    LET t1 == IF rm = "ok" THEN t
              ELSE Emit(t, <<Status("Warning: Could not clean up temporary directory")>>)
    IN  [Emit(t1, DoneSignals) EXCEPT !.pc = "done"]

\* lines 130-141: CleaningUp and Done
RunCleaningUp(w) ==
    /\ thr[w].pc = "installing"
    /\ thr[w].todo = {}
    /\ \E rm \in {"ok", "err"} :
        /\ Cost(rm) <= faults
        /\ faults' = faults - (Cost(rm))
        /\ LET d == thr[w].temp_dir
               t0 == Emit(thr[w], <<Status("Cleaning up..."), Progress(90)>>)
           IN  /\ IF rm = "ok"
                  THEN scratch' = [scratch EXCEPT ![d] = NoDir]
                  ELSE \E left \in Partial(scratch[d].items) :
                           scratch' = [scratch EXCEPT ![d] = DirOf(left)]
               /\ thr' = [thr EXCEPT ![w] = AfterRmtree(t0, rm)]
    /\ UNCHANGED <<lookup, now, tarfile, target, backups, hist, guiVars, sudoVars>>

\* UpdaterThread.run, one step of it
Run(w) ==
    \/ RunStarting(w)
    \/ RunOpening(w)
    \/ RunExtracting(w)
    \/ RunBackingUp(w)
    \/ RunLocating(w)
    \/ RunInstalling(w)
    \/ RunCleaningUp(w)

\* UpdaterThread(tarball, install) and start(): __init__ reads the clock
\* (line 34), which never runs backwards
StartThread(w, tarball, install) ==
    /\ thr[w].pc = "new"
    /\ \A v \in JobIds : v < w => thr[v].pc # "new"
    /\ \E t \in now..MaxTime :
        /\ now' = t
        /\ thr' = [thr EXCEPT ![w] = NewThread(tarball, install, t)]
    /\ hist' = [hist EXCEPT ![w] = [target0 |-> target[install], backups0 |-> backups,
                                    snap |-> NoDir, extracted |-> 0,
                                    located |-> FALSE, payload |-> {}]]

\* ------------------------------------------------- RunUpdate in succession
\* The entries an install directory holds before the first update: o is
\* old.txt, a is the windsurf executable (which the payload's p/a replaces).
Old_o == Entry(<<"o">>, "file", "v1")
Old_a == Entry(<<"a">>, "file", "v1")
InitialTargets ==
    { NoDir, EmptyDir, DirOf({Old_o}), DirOf({Old_a}), DirOf({Old_o, Old_a}) }

NoScript == [exists |-> FALSE, tarball_path |-> "", install_path |-> "", writer |-> 0]

\* A privileged run: the child process (state, the script line it is at, its
\* exit code and error stream, the names the script holds), the monitor
\* thread's QThread object (destroyed: deleted while its thread runs), the
\* outcomes shown to the user, and a record of the past (target0 the target
\* when the script began, snap the target when its backup step ran, stamp
\* its backup's name, extracted the members tar wrote).
NoChild ==
    [state |-> "none", pc |-> "none", rc |-> 0, err |-> "",
     tarball_path |-> "", install_path |-> "", extracted_dir |-> <<>>,
     destroyed |-> FALSE, outcomes |-> <<>>,
     target0 |-> NoDir, snap |-> NoDir, stamp |-> 0, backed |-> FALSE, extracted |-> 0]

\* no find_windsurf_installation call is being followed
NoLookup == [places |-> <<>>, which |-> "", result |-> "unset"]

InitDisk ==
    /\ now = 0
    /\ backups = [s \in Stamps |-> NoDir]
    /\ scratch = [d \in ScratchNames |-> NoDir]
    /\ thr = [w \in JobIds |-> NoThread]
    /\ hist = [w \in JobIds |-> NoHist]
    /\ script = NoScript
    /\ child = [k \in SudoIds |-> NoChild]
    /\ dated = [s \in Stamps |-> NoDir]
    /\ sudo_tmp = [k \in SudoIds |-> NoDir]

\* RunUpdate(archivePath, installPath): the caller of the direct path, with
\* one archive and one target for every run
Init ==
    /\ InitDisk
    /\ faults = MaxFaults
    /\ lookup = NoLookup
    /\ tarfile \in Archives
    /\ \E d \in InitialTargets :
         target = [p \in Paths |-> IF p = HomeWindsurf THEN d ELSE DirOf({Old_a})]
    /\ tarball_path = TarballFile
    /\ windsurf_path = HomeWindsurf
    /\ path_edit = HomeWindsurf
    /\ update_button = TRUE

\* a run starts when the run before it has produced its result
RunUpdate(w) ==
    /\ \A v \in JobIds : v < w => Terminal(thr[v])
    /\ StartThread(w, tarball_path, windsurf_path)
    /\ UNCHANGED <<lookup, tarfile, fsVars, faults, guiVars, sudoVars>>

Next == \E w \in JobIds : RunUpdate(w) \/ Run(w)

Spec == Init /\ [][Next]_vars

\* A started QThread runs: each call run() makes returns or raises, so a
\* job that can take a step does take it.
FairSpec == Spec /\ \A w \in JobIds : WF_vars(Run(w))

\* ------------------------------------------------- WindsurfUpdaterWindow
\* find_windsurf_installation, lines 304-344.  Each candidate directory is
\* seen as absent, as a directory without a launcher ("plain"), or as one
\* holding an entry named windsurf or windsurf.sh.
PossibleLocations ==
    << HomeWindsurf, "/home/user/Windsurf",
       "/home/user/Applications/windsurf", "/home/user/Applications/Windsurf",
       OptWindsurf, "/opt/Windsurf",
       "/usr/local/windsurf", "/usr/local/Windsurf" >>
PlaceKinds == {"absent", "plain", "windsurf", "windsurf.sh"}

\* `which windsurf`: subprocess.run raises, or returns with a code and the
\* path the command printed
WhichRaises == [raised |-> TRUE, returncode |-> 1, stdout |-> ""]
WhichFinds(path) == [raised |-> FALSE, returncode |-> 0, stdout |-> path]
WhichFindsNothing == [raised |-> FALSE, returncode |-> 1, stdout |-> ""]
WhichPaths == {"/usr/bin/windsurf", "/opt/windsurf/windsurf"}
WhichOutcomes == {WhichRaises, WhichFindsNothing} \cup { WhichFinds(x) : x \in WhichPaths }

\* str(Path(path).parent), on the paths of WhichPaths
ParentDir(path) == IF path = "/opt/windsurf/windsurf" THEN OptWindsurf ELSE "/usr/bin"

\* lines 323 and 327: location.exists() and one of the two entries exists
HasLauncher(kind) == kind \in {"windsurf", "windsurf.sh"}

\* the loop that returns the last candidate with a launcher
FirstMatch_Last(seen) ==
    CHOOSE i \in DOMAIN seen : HasLauncher(seen[i]) /\ \A j \in DOMAIN seen : j > i => ~HasLauncher(seen[j])

\* lines 322-328: the loop returns at the first candidate with a launcher
FirstMatch(seen) ==
    CHOOSE i \in DOMAIN seen : HasLauncher(seen[i]) /\ \A j \in 1..(i - 1) : ~HasLauncher(seen[j])

\* "" stands for None
FindWindsurfInstallation(seen, which) ==
    IF \E i \in DOMAIN seen : HasLauncher(seen[i])
    THEN PossibleLocations[FirstMatch(seen)]
    ELSE IF which.raised THEN ""
    ELSE IF which.returncode = 0 THEN ParentDir(which.stdout)
    ELSE ""

\* the candidates as the install directories of this model show them: the
\* entry a is the windsurf executable
SeenOnDisk ==
    [i \in DOMAIN PossibleLocations |->
        LET p == PossibleLocations[i]
        IN  IF p \notin Paths \/ ~target[p].exists THEN "absent"
            ELSE IF <<"a">> \in NamesOf(target[p].items) THEN "windsurf"
            ELSE "plain"]

\* the archives a user offers the application
AppArchives ==
    { [openable |-> TRUE, members |-> <<TarMember(Name_pa, FALSE)>>],
      [openable |-> TRUE, members |-> <<TarMember(Name_up, FALSE)>>] }

\* WindsurfUpdaterWindow.__init__ and init_ui, lines 151-265
AppInit ==
    /\ InitDisk
    /\ faults = MaxAppFaults
    /\ lookup = NoLookup
    /\ tarfile \in AppArchives
    /\ \E d \in { NoDir, DirOf({Old_a}) } :
         target = [p \in Paths |-> IF p = HomeWindsurf THEN d ELSE DirOf({Old_o})]
    /\ tarball_path = ""
    /\ \E which \in {WhichFindsNothing, WhichFinds("/opt/windsurf/windsurf")} :
         windsurf_path = FindWindsurfInstallation(SeenOnDisk, which)
    /\ path_edit = windsurf_path
    /\ update_button = FALSE

\* lines 274-281: one local file dropped on the drop area
dropEvent ==
    /\ tarball_path' = TarballFile
    /\ update_button' = (windsurf_path # "")
    /\ UNCHANGED <<lookup, now, tarfile, fsVars, thr, faults, hist, windsurf_path, path_edit,
                   sudoVars>>

\* lines 283-292: a file chosen in the dialog (a cancelled dialog changes
\* nothing)
browse_tarball ==
    /\ tarball_path' = TarballFile
    /\ update_button' = (windsurf_path # "")
    /\ UNCHANGED <<lookup, now, tarfile, fsVars, thr, faults, hist, windsurf_path, path_edit,
                   sudoVars>>

\* lines 294-302: an existing directory chosen in the dialog
browse_install_path(p) ==
    /\ target[p].exists
    /\ windsurf_path' = p
    /\ path_edit' = p
    /\ update_button' = (tarball_path # "")
    /\ UNCHANGED <<lookup, now, tarfile, fsVars, thr, faults, hist, tarball_path,
                   sudoVars>>

\* the user types in the path line edit (line 237: it is editable)
EditPath(text) ==
    /\ path_edit # text
    /\ path_edit' = text
    /\ UNCHANGED <<lookup, now, tarfile, fsVars, thr, faults, hist, tarball_path, windsurf_path,
                   update_button, sudoVars>>

\* lines 348-357: the clicked signal reaches start_update only from an
\* enabled button; without a tarball or a path it warns and returns
StartUpdateNothingToDo ==
    /\ update_button
    /\ tarball_path = "" \/ path_edit = ""
    /\ windsurf_path' = IF tarball_path = "" THEN windsurf_path ELSE path_edit
    /\ UNCHANGED <<lookup, now, tarfile, fsVars, thr, faults, hist, tarball_path, path_edit,
                   update_button, sudoVars>>

\* what start_update has established when it reaches line 376: the path
\* read from the line edit is a directory, made by os.makedirs (line 369)
\* if the user agreed to it
PathReady(made) ==
    /\ update_button
    /\ tarball_path # ""
    /\ path_edit # ""
    /\ windsurf_path' = path_edit
    /\ made = ~target[path_edit].exists

\* lines 360-374: the directory is missing, and the user declines to create
\* it or os.makedirs fails
StartUpdateNoDirectory ==
    /\ update_button
    /\ tarball_path # ""
    /\ path_edit # ""
    /\ ~target[path_edit].exists
    /\ windsurf_path' = path_edit
    /\ \E answer \in {"No", "Yes"} :
         /\ answer = "Yes" => faults > 0
         /\ faults' = IF answer = "Yes" THEN faults - 1 ELSE faults
    /\ UNCHANGED <<lookup, now, tarfile, fsVars, thr, hist, tarball_path, path_edit,
                   update_button, sudoVars>>

\* lines 376-388, answer No: the directory is not writable and the user
\* declines the privileged run
StartUpdateDeclineSudo ==
    /\ \E made \in BOOLEAN :
         /\ PathReady(made)
         /\ target' = IF made THEN [target EXCEPT ![path_edit] = EmptyDir] ELSE target
    /\ path_edit \notin WritablePaths
    /\ UNCHANGED <<lookup, now, tarfile, backups, scratch, thr, faults, hist, tarball_path,
                   path_edit, update_button, sudoVars>>

\* The application process is running.  The monitor's QThread object is a
\* local of run_with_sudo (lines 499-501) and nothing refers to it once the
\* function has returned, while its thread is still inside communicate();
\* Qt ends the process when a QThread object is deleted while its thread
\* runs.
AppAlive == \A k \in SudoIds : ~child[k].destroyed

\* run_with_sudo, lines 401-504: the script is written to its fixed place,
\* the child is launched through pkexec and the monitor thread is started;
\* an exception on the way is reported in a dialog.  Whether the QThread
\* object outlives the return of the function is left open.
StartUpdateRunWithSudo(k) ==
    /\ \E made \in BOOLEAN :
         /\ PathReady(made)
         /\ target' = IF made THEN [target EXCEPT ![path_edit] = EmptyDir] ELSE target
    /\ path_edit \notin WritablePaths
    /\ child[k].state = "none"
    /\ \A j \in SudoIds : j < k => child[j].state # "none"
    /\ \E wr \in {"ok", "err"}, po \in {"ok", "err"}, gone \in BOOLEAN :
         /\ Cost(wr) + Cost(po) <= faults
         /\ wr = "err" => po = "ok"
         /\ gone => (wr = "ok" /\ po = "ok")
         /\ faults' = faults - (Cost(wr) + Cost(po))
         /\ script' = IF wr = "ok"
                      THEN [exists |-> TRUE, tarball_path |-> tarball_path,
                            install_path |-> path_edit, writer |-> k]
                      ELSE script
         /\ child' = IF wr = "ok" /\ po = "ok"
                     THEN [child EXCEPT ![k].state = "running", ![k].pc = "auth",
                                        ![k].destroyed = gone]
                     ELSE [child EXCEPT ![k].state = "not launched"]
    /\ UNCHANGED <<lookup, now, tarfile, backups, scratch, thr, hist, tarball_path,
                   path_edit, update_button, dated, sudo_tmp>>

\* lines 390-399: the directory is writable; the button is disabled and an
\* UpdaterThread is made and started
StartUpdateThread(w) ==
    /\ \E made \in BOOLEAN :
         /\ PathReady(made)
         /\ target' = IF made THEN [target EXCEPT ![path_edit] = EmptyDir] ELSE target
    /\ path_edit \in WritablePaths
    /\ update_button' = FALSE
    /\ StartThread(w, tarball_path, path_edit)
    /\ UNCHANGED <<lookup, tarfile, backups, scratch, faults, tarball_path, path_edit, sudoVars>>

\* start_update, lines 346-399
start_update ==
    \/ StartUpdateNothingToDo
    \/ StartUpdateNoDirectory
    \/ StartUpdateDeclineSudo
    \/ \E k \in AppSudoIds : StartUpdateRunWithSudo(k)
    \/ \E w \in JobIds : StartUpdateThread(w)

\* lines 514-522: the slot finished_signal is connected to
update_finished(w) ==
    /\ Terminal(thr[w])
    /\ ~thr[w].received
    /\ thr' = [thr EXCEPT ![w].received = TRUE]
    /\ update_button' = TRUE
    /\ UNCHANGED <<lookup, now, tarfile, fsVars, faults, hist, tarball_path, windsurf_path,
                   path_edit, sudoVars>>

\* ------------------------------------------------- the privileged script
\* GNU tar refuses a member whose name has a ".." component (and goes on
\* with the others, to end with a non-zero status); it takes a leading "/"
\* off a member's name and extracts it under the -C directory.
TarRefuses(m) == \E i \in 1..Len(Segments(m.name)) : Segments(m.name)[i] = <<".", ".">>

\* tar -xzf on the members from the i-th on, line 422
RECURSIVE TarExtract(_, _, _)
TarExtract(tree, ms, i) ==
    IF i > Len(ms) THEN tree
    ELSE TarExtract(IF TarRefuses(ms[i]) THEN tree ELSE ExtractInto(tree, ms[i]), ms, i + 1)

TarWritten(ms) == Cardinality({ i \in 1..Len(ms) : ~TarRefuses(ms[i]) })
TarFails(a) == ~a.openable \/ \E i \in 1..Len(a.members) : TarRefuses(a.members[i])

\* what the shell pattern dir/* yields: the entries whose names do not
\* start with a dot
Glob(items) == { e \in items : e.name[1] # "." }

\* cp -r of entries into a directory: an entry of the same name is replaced
CopyInto(dst, items) == { e \in dst : e.name \notin NamesOf(items) } \cup items

\* lines 432-434: mkdir -p "$BACKUP_DIR" and cp -r '<target>/'* into it,
\* with the errors of cp discarded
ScriptBackupCopy(old, items) == DirOf(CopyInto(old.items, Glob(items)))

\* the child ends: with status 0 at the script's last line, with another
\* status where set -e, an exit or pkexec ends it
ChildEnds(c, rc, err) == [c EXCEPT !.state = "exited", !.pc = "end", !.rc = rc, !.err = err]

\* the script's next command is an echo: with the application gone, the
\* pipe it writes to has no reader and the write ends the child
Echo(k) == AppAlive

\* line 470: pkexec asks for authorisation; refused, it exits non-zero;
\* granted, bash opens the script file that is there now
ScriptAuth(k) ==
    /\ child[k].state = "running" /\ child[k].pc = "auth"
    /\ \E granted \in BOOLEAN :
         child' = [child EXCEPT ![k] =
                     IF ~granted THEN ChildEnds(@, 1, "Not authorized")
                     ELSE IF ~script.exists THEN ChildEnds(@, 1, "No such file or directory")
                     ELSE [@ EXCEPT !.pc = "start",
                                    !.tarball_path = script.tarball_path,
                                    !.install_path = script.install_path]]
    /\ UNCHANGED <<lookup, now, tarfile, fsVars, thr, faults, hist, guiVars, script,
                   dated, sudo_tmp>>

\* lines 409-418: mkdir -p and chmod of the target, mktemp -d
ScriptStart(k) ==
    /\ child[k].state = "running" /\ child[k].pc = "start"
    /\ LET p == child[k].install_path
           t == IF target[p].exists THEN target[p] ELSE EmptyDir
       IN  IF ~Echo(k)
           THEN /\ child' = [child EXCEPT ![k] = ChildEnds(@, 1, "")]
                /\ UNCHANGED <<target, sudo_tmp>>
           ELSE /\ target' = [target EXCEPT ![p] = t]
                /\ sudo_tmp' = [sudo_tmp EXCEPT ![k] = EmptyDir]
                /\ child' = [child EXCEPT ![k].pc = "extract", ![k].target0 = t]
    /\ UNCHANGED <<lookup, now, tarfile, backups, scratch, thr, faults, hist, guiVars,
                   script, dated>>

\* lines 420-426: tar -xzf into $TEMP_DIR; if it fails, the temp directory
\* is removed and the script exits with 1
ScriptExtract(k) ==
    /\ child[k].state = "running" /\ child[k].pc = "extract"
    /\ IF ~Echo(k)
       THEN /\ child' = [child EXCEPT ![k] = ChildEnds(@, 1, "")]
            /\ UNCHANGED sudo_tmp
       ELSE IF TarFails(tarfile)
       THEN /\ sudo_tmp' = [sudo_tmp EXCEPT ![k] = NoDir]
            /\ child' = [child EXCEPT ![k] =
                           ChildEnds([@ EXCEPT !.extracted =
                                         IF tarfile.openable THEN TarWritten(tarfile.members) ELSE 0],
                                     1, "tar: Exiting with failure status due to previous errors")]
       ELSE /\ sudo_tmp' = [sudo_tmp EXCEPT ![k].items = TarExtract(@, tarfile.members, 1)]
            /\ child' = [child EXCEPT ![k].pc = "backup",
                                      ![k].extracted = TarWritten(tarfile.members)]
    /\ UNCHANGED <<lookup, now, tarfile, fsVars, thr, faults, hist, guiVars, script, dated>>

\* lines 428-436: the backup, named by the date and time, of a target that
\* ls -A shows to hold something
ScriptBackup(k) ==
    /\ child[k].state = "running" /\ child[k].pc = "backup"
    /\ LET p == child[k].install_path
       IN  IF ~Echo(k)
           THEN /\ child' = [child EXCEPT ![k] = ChildEnds(@, 1, "")]
                /\ UNCHANGED <<now, dated>>
           ELSE IF target[p].exists /\ target[p].items # {}
           THEN \E t \in now..MaxTime :
                /\ now' = t
                /\ dated' = [dated EXCEPT ![t] = ScriptBackupCopy(@, target[p].items)]
                /\ child' = [child EXCEPT ![k].pc = "clear", ![k].snap = target[p],
                                          ![k].stamp = t, ![k].backed = TRUE]
           ELSE /\ child' = [child EXCEPT ![k].pc = "clear", ![k].snap = target[p]]
                /\ UNCHANGED <<now, dated>>
    /\ UNCHANGED <<lookup, tarfile, fsVars, thr, faults, hist, guiVars, script, sudo_tmp>>

\* lines 439-447: $EXTRACTED_DIR is the first directory find lists under
\* $TEMP_DIR, or $TEMP_DIR when it lists none; then everything under the
\* target is deleted
ScriptClear(k) ==
    /\ child[k].state = "running" /\ child[k].pc = "clear"
    /\ LET p == child[k].install_path
           dirs == ExtractedDirs(sudo_tmp[k].items)
       IN  IF ~Echo(k)
           THEN /\ child' = [child EXCEPT ![k] = ChildEnds(@, 1, "")]
                /\ UNCHANGED target
           ELSE /\ target' = [target EXCEPT ![p].items = {}]
                /\ \E src \in IF dirs = {} THEN {<<>>} ELSE { <<d.name>> : d \in dirs } :
                     child' = [child EXCEPT ![k].pc = "copy", ![k].extracted_dir = src]
    /\ UNCHANGED <<lookup, now, tarfile, backups, scratch, thr, faults, hist, guiVars,
                   script, dated, sudo_tmp>>

\* lines 449-460: rsync or cp of "$EXTRACTED_DIR/"* into the target, and the
\* permissions; a pattern that matches nothing makes both fail, and set -e
\* ends the script there
ScriptCopy(k) ==
    /\ child[k].state = "running" /\ child[k].pc = "copy"
    /\ LET p == child[k].install_path
           found == Glob(SourceItems(sudo_tmp[k].items, child[k].extracted_dir))
       IN  IF found = {}
           THEN /\ child' = [child EXCEPT ![k] = ChildEnds(@, 1, "cp: cannot stat: No such file or directory")]
                /\ UNCHANGED target
           ELSE /\ target' = [target EXCEPT ![p].items = CopyInto(@, found)]
                /\ child' = [child EXCEPT ![k].pc = "cleanup"]
    /\ UNCHANGED <<lookup, now, tarfile, backups, scratch, thr, faults, hist, guiVars,
                   script, dated, sudo_tmp>>

\* lines 462-465: rm -rf $TEMP_DIR, and the script's end
ScriptCleanup(k) ==
    /\ child[k].state = "running" /\ child[k].pc = "cleanup"
    /\ IF ~Echo(k)
       THEN /\ child' = [child EXCEPT ![k] = ChildEnds(@, 1, "")]
            /\ UNCHANGED sudo_tmp
       ELSE /\ sudo_tmp' = [sudo_tmp EXCEPT ![k] = NoDir]
            /\ child' = [child EXCEPT ![k] = ChildEnds(@, 0, "")]
    /\ UNCHANGED <<lookup, now, tarfile, fsVars, thr, faults, hist, guiVars, script, dated>>

\* the child process, one step of it
ScriptStep(k) ==
    \/ ScriptAuth(k)
    \/ ScriptStart(k)
    \/ ScriptExtract(k)
    \/ ScriptBackup(k)
    \/ ScriptClear(k)
    \/ ScriptCopy(k)
    \/ ScriptCleanup(k)

\* what monitor_process shows: success when the exit code is 0, otherwise
\* the failure with the error stream's text
Outcome(c) == [ok |-> c.rc = 0, text |-> IF c.rc = 0 THEN "" ELSE c.err]

\* monitor_process, lines 482-491: communicate() returns and the outcome
\* is shown
MonitorReport(k) ==
    /\ AppAlive
    /\ child[k].state = "exited"
    /\ child' = [child EXCEPT ![k].state = "reported",
                              ![k].outcomes = Append(@, Outcome(child[k]))]
    /\ UNCHANGED <<lookup, now, tarfile, fsVars, thr, faults, hist, guiVars, script,
                   dated, sudo_tmp>>

\* monitor_process, lines 493-497: os.remove(script_path), its failure ignored
MonitorCleanup(k) ==
    /\ AppAlive
    /\ child[k].state = "reported"
    /\ child' = [child EXCEPT ![k].state = "cleaned"]
    /\ \E rm \in {"ok", "err"} :
         /\ Cost(rm) <= faults
         /\ rm = "err" => script.exists
         /\ faults' = faults - (Cost(rm))
         /\ script' = IF rm = "ok" THEN NoScript ELSE script
    /\ UNCHANGED <<lookup, now, tarfile, fsVars, thr, hist, guiVars, dated, sudo_tmp>>

AppNext ==
    \/ /\ AppAlive
       /\ \/ dropEvent
          \/ browse_tarball
          \/ \E p \in Paths : browse_install_path(p)
          \/ \E text \in Paths \cup {""} : EditPath(text)
          \/ start_update
          \/ \E w \in JobIds : Run(w) \/ update_finished(w)
    \/ \E k \in SudoIds : ScriptStep(k) \/ MonitorReport(k) \/ MonitorCleanup(k)

AppSpec == AppInit /\ [][AppNext]_vars

\* ---------------------------------------------- the privileged path alone
\* The install directory needs privileges; h is a hidden entry (.h).
Old_h == Entry(<<".", "h">>, "file", "v1")
SudoTargets == { EmptyDir, DirOf({Old_a}), DirOf({Old_h}), DirOf({Old_a, Old_h}) }

SudoInit ==
    /\ InitDisk
    /\ faults = MaxFaults
    /\ lookup = NoLookup
    /\ tarfile \in Archives
    /\ \E d \in SudoTargets :
         target = [p \in Paths |-> IF p = OptWindsurf THEN d ELSE NoDir]
    /\ tarball_path = ""
    /\ windsurf_path = ""
    /\ path_edit = ""
    /\ update_button = FALSE

SudoNext ==
    \/ /\ AppAlive
       /\ \/ browse_tarball
          \/ \E p \in Paths : browse_install_path(p)
          \/ StartUpdateDeclineSudo
          \/ \E k \in SudoIds : StartUpdateRunWithSudo(k)
    \/ \E k \in SudoIds : ScriptStep(k) \/ MonitorReport(k) \/ MonitorCleanup(k)

SudoSpec == SudoInit /\ [][SudoNext]_vars

\* The child process runs, communicate() returns when it has ended, and a
\* shown dialog is dismissed.
FairSudoSpec ==
    SudoSpec /\ \A k \in SudoIds :
        WF_vars(ScriptStep(k)) /\ WF_vars(MonitorReport(k)) /\ WF_vars(MonitorCleanup(k))

\* ------------------------------------- find_windsurf_installation alone
MaxPresent == 3     \* candidate directories that exist at one time

Seens ==
    { seen \in [DOMAIN PossibleLocations -> PlaceKinds] :
        Cardinality({ i \in DOMAIN seen : seen[i] # "absent" }) <= MaxPresent }

FindInit ==
    /\ InitDisk
    /\ faults = 0
    /\ tarfile = [openable |-> FALSE, members |-> <<>>]
    /\ target = [p \in Paths |-> NoDir]
    /\ tarball_path = ""
    /\ windsurf_path = ""
    /\ path_edit = ""
    /\ update_button = FALSE
    /\ \E seen \in Seens, which \in WhichOutcomes :
         lookup = [places |-> seen, which |-> which, result |-> "unset"]

\* line 157: the window's constructor calls find_windsurf_installation
Find ==
    /\ lookup.result = "unset"
    /\ lookup' = [lookup EXCEPT !.result = FindWindsurfInstallation(lookup.places, lookup.which)]
    /\ windsurf_path' = lookup'.result
    /\ path_edit' = lookup'.result
    /\ UNCHANGED <<now, tarfile, fsVars, thr, faults, hist, tarball_path, update_button,
                   sudoVars>>

FindNext == Find

FindSpec == FindInit /\ [][FindNext]_vars

\* ================================================================= claims
\* the job started last
Latest(w) == thr[w].pc # "new" /\ \A v \in JobIds : v > w => thr[v].pc = "new"
Install(w) == target[thr[w].install_path]
Backup(w) == backups[thr[w].start_time]
ProgressOf(ev) == SelectSeq(ev, LAMBDA e : e.sig = "progress")
FinishedOf(ev) == SelectSeq(ev, LAMBDA e : e.sig = "finished")
Succeeded(w) == thr[w].pc = "done"
ReachedInstalling(w) == hist[w].snap.exists

\* a path with a segment that is exactly "..": a traversal segment
HasTraversalSegment(s) == \E i \in 1..Len(Segments(s)) : Segments(s)[i] = <<".", ".">>

\* an archive with a member whose path starts with '/' or has a ".." segment
HasUnsafePath(a) ==
    \E i \in 1..Len(a.members) :
        StartsWithSlash(a.members[i].name) \/ HasTraversalSegment(a.members[i].name)

\* what C1 says of every state
C1_NothingTouched ==
    \A w \in JobIds :
        (thr[w].pc # "new" /\ (~tarfile.openable \/ HasUnsafePath(tarfile))) =>
            /\ thr[w].pc \in {"starting", "opening", "failed"}
            /\ Terminal(thr[w]) =>
                 /\ Len(thr[w].events) > 0
                 /\ thr[w].events[Len(thr[w].events)].sig = "finished"
                 /\ ~thr[w].events[Len(thr[w].events)].ok
            /\ hist[w].extracted = 0
            /\ \A d \in ScratchNames : scratch[d].items = {}
            /\ Install(w) = hist[w].target0
            /\ backups = hist[w].backups0

\* C1: a job on an archive that cannot be opened, or that holds a member
\* whose path is absolute or has a traversal segment, never gets past the
\* opening of the archive and ends with a failure result; it extracts no
\* member, and the install target and every backup location stay as they
\* were when it started.
C1_UnsafeArchiveNoMutation ==
    /\ []C1_NothingTouched
    /\ \A w \in JobIds :
         (thr[w].pc # "new" /\ (~tarfile.openable \/ HasUnsafePath(tarfile)))
             ~> (thr[w].pc = "failed")

\* a job has failed on an archive whose second member is the unsafe one, with
\* a target that held entries
C1_Witness ==
    \E w \in JobIds :
        /\ thr[w].pc = "failed"
        /\ Len(tarfile.members) = 2
        /\ ~UnsafeMember(tarfile.members[1])
        /\ HasTraversalSegment(tarfile.members[2].name)
        /\ hist[w].target0.items # {}

\* C2 (as claimed): after a successful job on a target that held entries,
\* the target's entries are exactly the payload root's entries, and every
\* earlier entry the payload does not hold is gone from the target and is
\* in the job's backup.
C2_TargetEqualsPayload ==
    \A w \in JobIds :
        (Latest(w) /\ Succeeded(w) /\ hist[w].target0.items # {}) =>
            /\ NamesOf(Install(w).items) = NamesOf(hist[w].payload)
            /\ \A e \in hist[w].target0.items :
                 e.name \notin NamesOf(hist[w].payload) =>
                     e \notin Install(w).items /\ e \in Backup(w).items

\* C3 (as claimed): whatever step a job ended in, if its target held
\* entries when it started, its backup directory exists and holds what the
\* target held before Installing.
C3_BackupAfterEveryJob ==
    \A w \in JobIds :
        (Latest(w) /\ Terminal(thr[w]) /\ hist[w].target0.items # {}) =>
            Backup(w) = DirOf(hist[w].target0.items)

\* C3 (amended): a job whose target held entries when it started and whose
\* Installing step began has, from then on and when it has ended (succeeded
\* or failed), a backup directory holding exactly what the target held
\* immediately before Installing began.  (Read until the next job starts:
\* a job started in the same second replaces the directory.)
C3_BackupOnceInstalling ==
    \A w \in JobIds :
        (Latest(w) /\ hist[w].target0.items # {} /\ ReachedInstalling(w)) =>
            /\ Backup(w) = DirOf(hist[w].snap.items)
            /\ hist[w].snap = hist[w].target0

\* a job failed in its Installing step, after changing the target
C3_Witness ==
    \E w \in JobIds :
        /\ Latest(w) /\ thr[w].pc = "failed"
        /\ hist[w].target0.items # {} /\ ReachedInstalling(w)
        /\ Install(w) # hist[w].target0

\* C4 (as claimed): a job whose target did not exist, on an archive that is
\* openable, has members and no absolute or traversal path, creates no
\* backup, and ends succeeded with the target holding the payload root's
\* entries.  (Stated for runs in which no file-system call fails.)
C4_FreshTargetInstalled ==
    \A w \in JobIds :
        (/\ Latest(w) /\ ~hist[w].target0.exists /\ faults = MaxFaults
         /\ tarfile.openable /\ Len(tarfile.members) > 0 /\ ~HasUnsafePath(tarfile)) =>
            /\ backups = hist[w].backups0
            /\ Terminal(thr[w]) =>
                 /\ Succeeded(w)
                 /\ Install(w) = DirOf(hist[w].payload)

\* C5 (as claimed): of two successive runs with the same archive and
\* target, each leaves the target's entries equal to the payload's, and the
\* second run's backup holds what the first run left in the target.
C5_TwiceIdempotent ==
    /\ (Succeeded(1) /\ thr[2].pc = "new") => Install(1).items = hist[1].payload
    /\ (Succeeded(1) /\ Succeeded(2) /\ Latest(2)) =>
         /\ Install(2).items = hist[2].payload
         /\ Backup(2) = hist[2].target0

\* C6: a job's progress percentages are within 0..100 and never decrease,
\* and the last percentage emitted before a success result is 100.
C6_ProgressMonotone ==
    \A w \in JobIds :
        LET ev == thr[w].events
            ps == ProgressOf(ev)
        IN  /\ \A i \in 1..Len(ps) : ps[i].pct \in 0..100
            /\ \A i \in 1..(Len(ps) - 1) : ps[i].pct <= ps[i + 1].pct
            /\ \A j \in 1..Len(ev) :
                 (ev[j].sig = "finished" /\ ev[j].ok) =>
                     LET before == ProgressOf(SubSeq(ev, 1, j - 1))
                     IN  Len(before) > 0 /\ before[Len(before)].pct = 100
            /\ Succeeded(w) => (Len(FinishedOf(ev)) = 1 /\ FinishedOf(ev)[1].ok)

C6_Witness == \E w \in JobIds : Succeeded(w) /\ Len(ProgressOf(thr[w].events)) = 6

\* what C7 says of every state
C7_AtMostOnceAndLast ==
    \A w \in JobIds :
        LET ev == thr[w].events
        IN  /\ Len(FinishedOf(ev)) <= 1
            /\ \A j \in 1..Len(ev) : ev[j].sig = "finished" => j = Len(ev)
            /\ Terminal(thr[w]) <=> Len(FinishedOf(ev)) = 1

\* C7: a job never emits finished_signal twice and emits no signal after
\* it, and every started job does come to emit it: once, as its last signal.
C7_FinishedExactlyOnce ==
    /\ []C7_AtMostOnceAndLast
    /\ \A w \in JobIds :
         (thr[w].pc # "new") ~> (Terminal(thr[w]) /\ Len(FinishedOf(thr[w].events)) = 1)

\* one job has ended failed and another succeeded
C7_Witness ==
    \E v, w \in JobIds : thr[v].pc = "failed" /\ thr[w].pc = "done"

\* C8 (as claimed): when a job has produced its result, its scratch
\* directory is gone, unless the removal itself failed and was reported as
\* a warning.
C8_ScratchRemoved ==
    \A w \in JobIds :
        (Latest(w) /\ Terminal(thr[w]) /\ thr[w].temp_dir # 0) =>
            \/ ~scratch[thr[w].temp_dir].exists
            \/ \E j \in 1..Len(thr[w].events) :
                 thr[w].events[j] = Status("Warning: Could not clean up temporary directory")

\* C9 (as claimed): at most one UpdaterThread is between its start and its
\* finished_signal.
C9_AtMostOneWorker == Cardinality({ w \in JobIds : InFlight(thr[w]) }) <= 1

\* C10 (as claimed): a privileged child and an UpdaterThread are never in
\* flight at the same time.
C10_PathsExclusive ==
    ~(/\ \E w \in JobIds : InFlight(thr[w])
      /\ \E k \in SudoIds : child[k].state = "running")

\* what C11 says of every state: an outcome is shown at most once, only
\* when the child has exited, and it tells the exit code and the error text
C11_OutcomeMatchesExit ==
    \A k \in SudoIds :
        LET c == child[k]
        IN  /\ Len(c.outcomes) <= 1
            /\ c.state \in {"none", "not launched", "running", "exited"} => c.outcomes = <<>>
            /\ c.outcomes # <<>> =>
                 /\ c.outcomes[1].ok <=> (c.rc = 0)
                 /\ ~c.outcomes[1].ok => c.outcomes[1].text = c.err

\* C11 (as claimed): every privileged run whose child was launched shows
\* exactly one outcome, after the child has exited: success exactly when
\* the exit code is 0, and on failure the child's error text.
C11_OneOutcomeAfterExit ==
    /\ []C11_OutcomeMatchesExit
    /\ \A k \in SudoIds :
         (child[k].state = "running") ~> (Len(child[k].outcomes) = 1)

\* C12 (as claimed): once a privileged run's child has exited, the script
\* file is eventually gone from its place.
C12_ScriptEventuallyRemoved ==
    \A k \in SudoIds : (child[k].state = "exited") ~> ~script.exists

\* what the claim says find_windsurf_installation returns
C13_Expected(seen, which) ==
    LET matches == { i \in DOMAIN seen : seen[i] \in {"windsurf", "windsurf.sh"} }
    IN  IF matches # {}
        THEN PossibleLocations[CHOOSE i \in matches : \A j \in matches : i <= j]
        ELSE IF ~which.raised /\ which.returncode = 0
        THEN (IF which.stdout = "/usr/bin/windsurf" THEN "/usr/bin" ELSE "/opt/windsurf")
        ELSE ""

\* C13: find_windsurf_installation returns the first candidate, in the
\* list's order, that exists and holds windsurf or windsurf.sh; with no
\* such candidate, the directory of the executable `which` found; and None
\* when that lookup finds nothing or cannot be run.
C13_FirstCandidateThenWhich ==
    lookup.result # "unset" => lookup.result = C13_Expected(lookup.places, lookup.which)

\* two candidates hold a launcher, a plain directory comes before them, and
\* the later one in the list was not returned
C13_Witness ==
    /\ lookup.result # "unset"
    /\ \E i, j, h \in DOMAIN lookup.places :
         /\ h < i /\ i < j
         /\ lookup.places[h] = "plain"
         /\ lookup.places[i] = "windsurf.sh"
         /\ lookup.places[j] = "windsurf"
         /\ lookup.result = PossibleLocations[i]

\* the percentages a job has emitted, in order
Pcts(w) ==
    LET ps == ProgressOf(thr[w].events) IN [i \in 1..Len(ps) |-> ps[i].pct]
IsPrefix(a, b) == Len(a) <= Len(b) /\ \A i \in 1..Len(a) : a[i] = b[i]
StateOrder == <<10, 30, 50, 70, 90, 100>>
HasStatus(w, m) == \E j \in 1..Len(thr[w].events) : thr[w].events[j] = Status(m)

\* what C14 says of every state
C14_InOrder ==
    \A w \in JobIds :
        LET n == Len(Pcts(w))
            pc == thr[w].pc
        IN  /\ IsPrefix(Pcts(w), StateOrder)
            /\ pc \in {"new", "starting"} => n = 0
            /\ pc \in {"opening", "extracting"} => n = 2
            /\ pc \in {"locating", "installing"} => n = 4
            /\ pc = "done" => n = 6
            /\ pc = "failed" =>
                 /\ n \in 1..4
                 /\ thr[w].events[Len(thr[w].events)].sig = "finished"
                 /\ ~thr[w].events[Len(thr[w].events)].ok
                 /\ n = 1 => (thr[w].temp_dir = 0 /\ hist[w].extracted = 0)
                 /\ (n <= 2 /\ Latest(w)) => backups = hist[w].backups0
                 /\ n <= 3 => ~hist[w].located
                 /\ (n <= 3 /\ Latest(w)) => Install(w) = hist[w].target0
                 /\ thr[w].temp_dir # 0 => scratch[thr[w].temp_dir].exists

\* C14: a job emits 10, 30, 50, 70, 90, 100 in that order, each once, on
\* entry to the state it stands for; a job that fails in a state has
\* emitted no percentage of a later state and done no work of a later
\* state, and once failed it takes no further step.
C14_StatesInStrictOrder ==
    /\ []C14_InOrder
    /\ [][\A w \in JobIds : thr[w].pc = "failed" => thr'[w] = thr[w]]_vars

\* a job has failed in BackingUp, after extracting a member
C14_Witness ==
    \E w \in JobIds :
        thr[w].pc = "failed" /\ Pcts(w) = <<10, 30, 50>> /\ hist[w].extracted > 0

\* C15 (as claimed): no member is ever extracted, by the direct path or by
\* the privileged script, from an archive chosen with browse_tarball that
\* holds an absolute or parent-traversal member path.
C15_NoExtractionFromUnsafeArchive ==
    (tarball_path # "" /\ HasUnsafePath(tarfile)) =>
        /\ \A w \in JobIds : hist[w].extracted = 0
        /\ \A k \in SudoIds : child[k].extracted = 0

\* C16 (as claimed): when the script has cleared a target that held
\* entries, a backup named by date and time holds the entries the target
\* had; the target is empty until the copy, and the temp directory is
\* there until the copy is done.
C16_BackupBeforeClear ==
    \A k \in SudoIds :
        (child[k].state = "running" /\ child[k].pc \in {"copy", "cleanup"}) =>
            /\ child[k].snap.items # {} =>
                 /\ child[k].backed
                 /\ dated[child[k].stamp].exists
                 /\ child[k].snap.items \subseteq dated[child[k].stamp].items
            /\ child[k].pc = "copy" => target[child[k].install_path].items = {}
            /\ sudo_tmp[k].exists

EntriesNamed(items, n) == { e \in items : e.name = n }

\* C17: a job that failed in its install loop has emitted neither 90 nor
\* 100; the entries it had installed are in the target (nothing is rolled
\* back), no entry other than the failing one was touched after them, and
\* the backup it took is on disk with what the target held.
C17_InstallFailureAborts ==
    \A w \in JobIds :
        (Latest(w) /\ thr[w].pc = "failed" /\ hist[w].located) =>
            /\ Pcts(w) = <<10, 30, 50, 70>>
            /\ thr[w].todo # {}
            /\ \A e \in hist[w].payload : e.name \notin thr[w].todo => e \in Install(w).items
            /\ Cardinality({ n \in thr[w].todo :
                   EntriesNamed(Install(w).items, n) # EntriesNamed(hist[w].snap.items, n) }) <= 1
            /\ \A e \in hist[w].snap.items :
                 e.name \notin NamesOf(hist[w].payload) => e \in Install(w).items
            /\ hist[w].target0.exists => Backup(w) = DirOf(hist[w].snap.items)

\* a job failed at the second of two payload entries, with the first one
\* installed over an old entry
C17_Witness ==
    \E w \in JobIds :
        /\ Latest(w) /\ thr[w].pc = "failed" /\ hist[w].located
        /\ Cardinality(hist[w].payload) = 2 /\ Cardinality(thr[w].todo) = 1
        /\ Install(w).items # hist[w].snap.items
        /\ hist[w].snap.items # {}

ExtractionFailureReported(w) ==
    \/ HasStatus(w, "Permission error extracting, trying to continue...")
    \/ HasStatus(w, "Error extracting member")

ExtractionFailures(w) ==
    Len(SelectSeq(thr[w].events, LAMBDA e :
        e \in { Status("Permission error extracting, trying to continue..."),
                Status("Error extracting member") }))

\* what C18 says of every state: a job that has begun its extraction loop
\* has reported every attempt it did not extract, and fails no earlier than
\* in BackingUp, by when it has attempted every member
C18_EveryMemberAttempted ==
    \A w \in JobIds :
        /\ ExtractionFailureReported(w) =>
             /\ thr[w].pc = "failed" => Len(Pcts(w)) >= 3
             /\ hist[w].extracted < thr[w].idx - 1
        /\ thr[w].idx > 0 =>
             /\ thr[w].pc = "failed" => Len(Pcts(w)) >= 3
             /\ thr[w].idx - 1 = hist[w].extracted + ExtractionFailures(w)
        /\ Len(Pcts(w)) >= 3 => thr[w].idx = Len(thr[w].tar) + 1

\* C18: a failure extracting one member is reported as a status message and
\* does not end the job: every remaining member is attempted, and the job
\* goes on to BackingUp.
C18_ExtractionBestEffort ==
    /\ []C18_EveryMemberAttempted
    /\ \A w \in JobIds :
         ExtractionFailureReported(w) ~> (Len(Pcts(w)) >= 3)

\* the first of two members failed, the second was extracted, and the job
\* is past BackingUp
C18_Witness ==
    \E w \in JobIds :
        /\ ExtractionFailureReported(w)
        /\ thr[w].events[5] = Progress(30)
        /\ thr[w].events[6] = Status("Permission error extracting, trying to continue...")
        /\ Len(thr[w].tar) = 2 /\ hist[w].extracted = 1
        /\ thr[w].pc = "done"

\* C19: a job whose removal of the scratch directory failed still emits
\* 100 and a success result, and no failed job got as far as CleaningUp.
C19_CleanupNeverFails ==
    \A w \in JobIds :
        LET ev == thr[w].events
        IN  /\ HasStatus(w, "Warning: Could not clean up temporary directory") =>
                 /\ thr[w].pc = "done"
                 /\ SubSeq(ev, Len(ev) - 2, Len(ev)) = DoneSignals
                 /\ FinishedOf(ev) = <<Finished(TRUE, "Windsurf has been successfully updated!")>>
            /\ thr[w].pc = "failed" => Len(Pcts(w)) <= 4

\* the removal failed and left the scratch directory behind
C19_Witness ==
    \E w \in JobIds :
        /\ HasStatus(w, "Warning: Could not clean up temporary directory")
        /\ scratch[thr[w].temp_dir].exists

\* C20 (as claimed): a job whose target did not exist, or existed and was
\* empty, when it started creates no backup directory.
C20_NoBackupOfEmptyTarget ==
    \A w \in JobIds :
        (Latest(w) /\ hist[w].target0.items = {}) => backups = hist[w].backups0

\* the rule of C21 on a scratch directory's entries: src is the chosen
\* root (<<>> the scratch directory itself, <<d>> its subdirectory d)
C21_RuleChose(tree, src) ==
    IF ExtractedDirs(tree) # {}
    THEN \E d \in ExtractedDirs(tree) : src = <<d.name>>
    ELSE tree # {} /\ src = <<>>

\* C21 (as claimed): the payload root a job or the privileged script has
\* chosen is a direct subdirectory of the scratch directory when it has
\* one, and otherwise the scratch directory itself, which then holds a
\* file; on an empty scratch directory no root is chosen.
C21_PayloadRootRule ==
    /\ \A w \in JobIds :
         (thr[w].pc = "installing" /\ scratch[thr[w].temp_dir].exists) =>
             C21_RuleChose(scratch[thr[w].temp_dir].items, thr[w].source_dir)
    /\ \A k \in SudoIds :
         (child[k].state = "running" /\ child[k].pc = "copy") =>
             C21_RuleChose(sudo_tmp[k].items, child[k].extracted_dir)

\* the job's backup step has written its backup directory
BackupWritten(w) == HasStatus(w, "Backup created")

\* the job has made a scratch directory and has not come to remove it
HoldsScratch(w) == thr[w].temp_dir # 0 /\ thr[w].pc # "done"

\* C22 (as claimed): two jobs never hold the same scratch directory, and
\* two jobs that each made a backup made it in different directories.
C22_DirectoriesExclusive ==
    \A v, w \in JobIds :
        v # w =>
            /\ (HoldsScratch(v) /\ HoldsScratch(w)) => thr[v].temp_dir # thr[w].temp_dir
            /\ (BackupWritten(v) /\ BackupWritten(w)) => thr[v].start_time # thr[w].start_time

\* C23 (as claimed): while a privileged child is running, the script file
\* is in its place as that child's own run wrote it: no other run has
\* rewritten it and no monitor has removed it.
C23_ScriptKeptForRunningChild ==
    \A k \in SudoIds :
        child[k].state = "running" => (script.exists /\ script.writer = k)

====
